---------------------------- MODULE Spec2Model ----------------------------
(***************************************************************************)
(* Model of make_transcripts.py: TranscriptMaker (cue parsing, time        *)
(* conversion, aggregation, the dedup/merge pass, the transcript writer    *)
(* and the batch driver).                                                  *)
(*                                                                         *)
(* A Python str is a sequence of one-character strings.                    *)
(***************************************************************************)
EXTENDS Integers, Sequences, FiniteSets, TLC

\* ------------------------------------------------------------------ bounds
\* Files on disk, over all video directories together (Spec).
MaxFiles == 2
\* Cues handed to one call of process_segments (SpecMerge).
MaxCues == 3

\* ----------------------------------------------------------- str primitives
Whitespace == {" ", "\t", "\n"}

Digits == {"0", "1", "2", "3", "4", "5", "6", "7", "8", "9"}

UpperChars ==
    {"A", "B", "C", "D", "E", "F", "G", "H", "I", "J", "K", "L", "M",
     "N", "O", "P", "Q", "R", "S", "T", "U", "V", "W", "X", "Y", "Z"}

\* int(c) for one decimal digit.
DigitVal(c) ==
    CASE c = "0" -> 0 [] c = "1" -> 1 [] c = "2" -> 2 [] c = "3" -> 3
      [] c = "4" -> 4 [] c = "5" -> 5 [] c = "6" -> 6 [] c = "7" -> 7
      [] c = "8" -> 8 [] c = "9" -> 9

\* c.isupper() for one character.
isupper(c) == c \in UpperChars

\* s.isdigit(): non-empty and every character a digit.
isdigit(s) == s # <<>> /\ \A i \in 1..Len(s) : s[i] \in Digits

\* s.lstrip()
RECURSIVE lstrip(_)
lstrip(s) ==
    IF s # <<>> /\ Head(s) \in Whitespace THEN lstrip(Tail(s)) ELSE s

\* s.rstrip()
RECURSIVE rstrip(_)
rstrip(s) ==
    IF s # <<>> /\ s[Len(s)] \in Whitespace
    THEN rstrip(SubSeq(s, 1, Len(s) - 1))
    ELSE s

\* s.strip()
strip(s) == rstrip(lstrip(s))

\* s.startswith(p)
startswith(s, p) == Len(s) >= Len(p) /\ SubSeq(s, 1, Len(p)) = p

\* Index of the first occurrence of p in s at or behind position k, 0 when
\* there is none.
RECURSIVE findFrom(_, _, _)
findFrom(s, p, k) ==
    IF k + Len(p) - 1 > Len(s) THEN 0
    ELSE IF SubSeq(s, k, k + Len(p) - 1) = p THEN k
    ELSE findFrom(s, p, k + 1)

\* Index of the first occurrence of p in s, 0 when there is none (s.find(p) + 1).
find(s, p) == findFrom(s, p, 1)

\* p in s
contains(s, p) == find(s, p) # 0

\* sep.join(parts)
RECURSIVE join(_, _)
join(parts, sep) ==
    IF parts = <<>> THEN <<>>
    ELSE IF Len(parts) = 1 THEN parts[1]
    ELSE parts[1] \o sep \o join(Tail(parts), sep)

\* s.splitlines(): the lines of s, the line breaks removed; a trailing
\* line break opens no further line.
RECURSIVE splitlines(_)
splitlines(s) ==
    IF s = <<>> THEN <<>>
    ELSE LET nl == find(s, <<"\n">>)
         IN  IF nl = 0 THEN <<s>>
             ELSE <<SubSeq(s, 1, nl - 1)>> \o splitlines(SubSeq(s, nl + 1, Len(s)))

\* s.split(sep)[0]
splitFirst(s, sep) ==
    LET at == find(s, sep)
    IN  IF at = 0 THEN s ELSE SubSeq(s, 1, at - 1)

\* ------------------------------------------------------------------ inputs
\* The texts the inputs are made of.
T_IWentHome ==
    <<"I", " ", "w", "e", "n", "t", " ", "h", "o", "m", "e">>

T_ButThen ==
    <<"B", "u", "t", " ", "t", "h", "e", "n", " ", "I", " ", "l", "e", "f",
      "t", ".">>

T_Hello ==
    <<"H", "e", "l", "l", "o", " ", "w", "o", "r", "l", "d", ".">>

T_AndGoodbye ==
    <<"A", "n", "d", " ", "g", "o", "o", "d", "b", "y", "e", ".">>

T_So ==
    <<"s", "o", ":">>

T_Next ==
    <<"N", "e", "x", "t", ";">>

T_Why ==
    <<"W", "h", "y", "?">>

T_Wow ==
    <<"w", "o", "w", "!">>

T_Butter ==
    <<"B", "u", "t", "t", "e", "r">>

T_Then ==
    <<"t", "h", "e", "n">>

T_OrElse ==
    <<"O", "r", " ", "e", "l", "s", "e">>

T_SoBe ==
    <<"S", "o", " ", "b", "e", " ", "i", "t">>

T_ThenGo ==
    <<"T", "h", "e", "n", " ", "g", "o">>

T_However ==
    <<"H", "o", "w", "e", "v", "e", "r", " ", "i", "t", " ", "w", "e", "n",
      "t">>

T_Therefore ==
    <<"T", "h", "e", "r", "e", "f", "o", "r", "e", " ", "n", "o">>

T_SeeYou ==
    <<"s", "e", "e", " ", "y", "o", "u">>

T_Well ==
    <<"W", "e", "l", "l">>

T_HelloLower ==
    <<"h", "e", "l", "l", "o">>

T_Oops ==
    <<"O", "o", "p", "s">>

T_JustText ==
    <<"j", "u", "s", "t", " ", "t", "e", "x", "t">>

T_Header ==
    <<"W", "E", "B", "V", "T", "T">>

T_Map ==
    <<"X", "-", "T", "I", "M", "E", "S", "T", "A", "M", "P", "-", "M", "A",
      "P", "=", "L", "O", "C", "A", "L", ":", "0", "0", ":", "0", "0", ":",
      "0", "0", ".", "0", "0", "0", ",", "M", "P", "E", "G", "T", "S", ":",
      "0">>

T_Note ==
    <<"N", "O", "T", "E", " ", "n", "o", "t", "h", "i", "n", "g", " ", "h",
      "e", "r", "e">>

T_Seven ==
    <<"7">>

T_BadRange ==
    <<"s", "o", "o", "n", " ", "-", "-", ">", " ", "l", "a", "t", "e", "r">>

T_Old ==
    <<"(", "a", "n", " ", "e", "a", "r", "l", "i", "e", "r", " ", "t", "r",
      "a", "n", "s", "c", "r", "i", "p", "t", ")">>

\* A timestamp as the capture side writes it: HH:MM:SS.mmm.
DigitChar(d) ==
    CASE d = 0 -> "0" [] d = 1 -> "1" [] d = 2 -> "2" [] d = 3 -> "3"
      [] d = 4 -> "4" [] d = 5 -> "5" [] d = 6 -> "6" [] d = 7 -> "7"
      [] d = 8 -> "8" [] d = 9 -> "9"

TwoDigits(n) == <<DigitChar((n \div 10) % 10), DigitChar(n % 10)>>

Stamp(ms) ==
    TwoDigits(ms \div 3600000) \o <<":">> \o TwoDigits((ms \div 60000) % 60)
        \o <<":">> \o TwoDigits((ms \div 1000) % 60) \o <<".">>
        \o <<DigitChar((ms \div 100) % 10)>> \o TwoDigits(ms % 100)

\* A time-range line: "HH:MM:SS.mmm --> HH:MM:SS.mmm".
TimeRange(from, to) == Stamp(from) \o <<" ", "-", "-", ">", " ">> \o Stamp(to)

\* A segment file as it lies on disk.
TextFile(lines) == [readable |-> TRUE, text |-> join(lines, <<"\n">>)]

\* The files the capture side may have left (Spec).
\* One cue under a header.
File_A == TextFile(<<T_Header, <<>>, TimeRange(0, 1000), T_Hello, <<>>>>)
\* No header; a repeat of File_A's cue at a later time, then a second cue.
File_B ==
    TextFile(<<TimeRange(1500, 2000), T_Hello, <<>>,
               TimeRange(2500, 3000), T_AndGoodbye>>)
\* Cues out of time order, a numeric id, content over two lines, an
\* unparsable time range; its times tie with those of File_A and File_B.
File_C ==
    TextFile(<<T_Header, T_Map, <<>>,
               T_Seven, TimeRange(2500, 3000), T_SeeYou, <<>>,
               TimeRange(0, 1000), T_Well, T_HelloLower, <<>>,
               T_BadRange, T_Oops, <<>>>>)
\* A time range with no text under it: a cue with empty content.
File_D == TextFile(<<T_Header, <<>>, TimeRange(4000, 5000), <<>>>>)
\* No time range at all: no cue.
File_E == TextFile(<<T_Header, <<>>, T_Note, <<>>, T_JustText, <<>>>>)
\* A file open() or read() fails on.
File_U == [readable |-> FALSE, text |-> <<>>]

\* The paths glob may return, and what open() finds at each.
SegmentFiles == {"a.txt", "b.txt", "c.txt", "d.txt", "e.txt", "u.txt"}

Disk(file_path) ==
    CASE file_path = "a.txt" -> File_A
      [] file_path = "b.txt" -> File_B
      [] file_path = "c.txt" -> File_C
      [] file_path = "d.txt" -> File_D
      [] file_path = "e.txt" -> File_E
      [] file_path = "u.txt" -> File_U

\* ------------------------------------------------------------- VTTSegment
\* An Optional value is a sequence of length at most one: None is the empty
\* one, Some(x) holds x at [1]. It also stands for a file or directory that
\* may not exist, and for a value not assigned yet.
None == <<>>
Some(x) == <<x>>

\* VTTSegment(time_range, content, content_id); __post_init__ strips content.
VTTSegment(time_range, content, content_id) ==
    [time_range |-> time_range, content |-> strip(content), content_id |-> content_id]

\* int() of a string of decimal digits.
RECURSIVE int(_)
int(s) ==
    IF s = <<>> THEN 0
    ELSE 10 * int(SubSeq(s, 1, Len(s) - 1)) + DigitVal(s[Len(s)])

\* re.match(r"(\d{2}):(\d{2}):(\d{2})\.(\d{3})", t): the pattern matches a
\* prefix of t.
TimeMatch(t) ==
    /\ Len(t) >= 12
    /\ \A i \in {1, 2, 4, 5, 7, 8, 10, 11, 12} : t[i] \in Digits
    /\ t[3] = ":" /\ t[6] = ":" /\ t[9] = "."

\* VTTSegment.start_time_ms
start_time_ms(segment) ==
    LET t == splitFirst(segment.time_range, <<" ", "-", "-", ">", " ">>)
    IN  IF TimeMatch(t)
        THEN LET h  == int(SubSeq(t, 1, 2))
                 m  == int(SubSeq(t, 4, 5))
                 s  == int(SubSeq(t, 7, 8))
                 ms == int(SubSeq(t, 10, 12))
             IN  (h * 3600 + m * 60 + s) * 1000 + ms
        ELSE 0

\* -------------------------------------------------------------- Cue Parser
Arrow == <<"-", "-", ">">>

\* A block parser that makes a cue of a block without a time range.
parse_vtt_block_NoRange(lines) ==
    Some(VTTSegment(<<>>, strip(join(lines, <<" ">>)), None))

\* TranscriptMaker.parse_vtt_block: None without a line holding "-->".
parse_vtt_block(lines) ==
    LET withArrow == {k \in 1..Len(lines) : contains(lines[k], Arrow)}
        time_range_index == CHOOSE k \in withArrow : \A j \in withArrow : k <= j
        content_id ==
            IF time_range_index > 1 /\ isdigit(lines[1]) THEN Some(lines[1]) ELSE None
        content_lines == SubSeq(lines, time_range_index + 1, Len(lines))
        full_content == strip(join(content_lines, <<" ">>))
    IN  IF withArrow = {} THEN None
        ELSE Some(VTTSegment(lines[time_range_index], full_content, content_id))

\* The header and note lines parse_vtt_file skips.
SkippedPrefixes ==
    { <<"W", "E", "B", "V", "T", "T">>,
      <<"X", "-", "T", "I", "M", "E", "S", "T", "A", "M", "P", "-", "M", "A", "P">>,
      <<"N", "O", "T", "E">>,
      <<"K", "i", "n", "d", ":">>,
      <<"L", "a", "n", "g", "u", "a", "g", "e", ":">> }

\* A completed block handed to parse_vtt_block, its cue appended if there is one.
AppendBlock(segments, current_block_lines) ==
    IF current_block_lines = <<>> THEN segments
    ELSE LET segment == parse_vtt_block(current_block_lines)
         IN  IF segment = None THEN segments ELSE Append(segments, segment[1])

\* The scan of parse_vtt_file over the remaining lines.
RECURSIVE ScanLines(_, _, _)
ScanLines(lines, current_block_lines, segments) ==
    IF lines = <<>> THEN AppendBlock(segments, current_block_lines)
    ELSE LET line == strip(Head(lines))
         IN  IF \E p \in SkippedPrefixes : startswith(line, p)
             THEN ScanLines(Tail(lines), current_block_lines, segments)
             ELSE IF line = <<>>
             THEN ScanLines(Tail(lines), <<>>, AppendBlock(segments, current_block_lines))
             ELSE ScanLines(Tail(lines), Append(current_block_lines, line), segments)

\* TranscriptMaker.parse_vtt_file: a file that cannot be read yields no cue.
parse_vtt_file(file_path) ==
    IF ~Disk(file_path).readable THEN <<>>
    ELSE ScanLines(splitlines(strip(Disk(file_path).text)), <<>>, <<>>)

\* ------------------------------------------------------ Segment Aggregator
\* all_segments after the loop of process_video: the cues of the files, in the
\* order glob found the files.
RECURSIVE ParseAll(_)
ParseAll(segment_files) ==
    IF segment_files = <<>> THEN <<>>
    ELSE parse_vtt_file(Head(segment_files)) \o ParseAll(Tail(segment_files))

\* An insertion that puts x before the elements of equal key.
RECURSIVE SortInsert_BeforeEqual(_, _)
SortInsert_BeforeEqual(sorted, x) ==
    IF sorted = <<>> THEN <<x>>
    ELSE IF start_time_ms(x) <= start_time_ms(Head(sorted)) THEN <<x>> \o sorted
    ELSE <<Head(sorted)>> \o SortInsert_BeforeEqual(Tail(sorted), x)

\* One step of list.sort: x goes behind every element whose key is not greater.
RECURSIVE SortInsert(_, _)
SortInsert(sorted, x) ==
    IF sorted = <<>> THEN <<x>>
    ELSE IF start_time_ms(x) < start_time_ms(Head(sorted)) THEN <<x>> \o sorted
    ELSE <<Head(sorted)>> \o SortInsert(Tail(sorted), x)

\* all_segments.sort(key=lambda s: s.start_time_ms): a stable sort.
RECURSIVE SortByStart(_)
SortByStart(all_segments) ==
    IF all_segments = <<>> THEN <<>>
    ELSE SortInsert(SortByStart(SubSeq(all_segments, 1, Len(all_segments) - 1)),
                    all_segments[Len(all_segments)])

\* ------------------------------------------------ Transcript Reconstructor
continuation_words ==
    { <<"A", "n", "d">>, <<"B", "u", "t">>, <<"O", "r">>, <<"S", "o">>,
      <<"T", "h", "e", "n">>, <<"H", "o", "w", "e", "v", "e", "r">>,
      <<"T", "h", "e", "r", "e", "f", "o", "r", "e">> }

\* s.rstrip()[-1]
LastChar(s) == rstrip(s)[Len(rstrip(s))]

\* A test that takes the bare word for a continuation.
is_continuation_NoSpace(content) ==
    \E word \in continuation_words : startswith(content, word)

\* any(content.startswith(word + " ") for word in continuation_words)
is_continuation(content) ==
    \E word \in continuation_words : startswith(content, word \o <<" ">>)

\* The test that opens the new-sentence branch of process_segments.
UpperAfterOpenText(current_sentence, content) ==
    /\ isupper(content[1])
    /\ LastChar(current_sentence) \notin {".", "!", "?", ":", ";"}

\* A closing test that counts the colon and the semicolon in.
EndsSentence_OnColon(current_sentence) ==
    LastChar(current_sentence) \in {".", "!", "?", ":", ";"}

\* The test that closes a sentence at the end of an iteration.
EndsSentence(current_sentence) == LastChar(current_sentence) \in {".", "!", "?"}

\* A skip test that knows no repeats.
Skipped_EmptyOnly(seen, segment) == strip(segment.content) = <<>>

\* The cue is passed over: empty content, or content seen before.
Skipped(seen, segment) ==
    \/ strip(segment.content) = <<>>
    \/ segment.content \in seen

\* A loop body whose new-sentence branch forgets to keep the open sentence.
Merge_DropsOpen(res, current, content) ==
    LET grown ==
            IF current # <<>>
            THEN IF UpperAfterOpenText(current, content)
                 THEN IF is_continuation(content)
                      THEN [result |-> res, current_sentence |-> current \o <<" ">> \o content]
                      ELSE [result |-> res, current_sentence |-> content]
                 ELSE [result |-> res, current_sentence |-> current \o <<" ">> \o content]
            ELSE [result |-> res, current_sentence |-> content]
    IN  IF EndsSentence(grown.current_sentence)
        THEN [result |-> Append(grown.result, grown.current_sentence),
              current_sentence |-> <<>>]
        ELSE grown

\* The body of the loop of process_segments for a cue that is not skipped:
\* the new [result, current_sentence].
Merge(res, current, content) ==
    LET grown ==
            IF current # <<>>
            THEN IF UpperAfterOpenText(current, content)
                 THEN IF is_continuation(content)
                      THEN [result |-> res, current_sentence |-> current \o <<" ">> \o content]
                      ELSE [result |-> Append(res, current), current_sentence |-> content]
                 ELSE [result |-> res, current_sentence |-> current \o <<" ">> \o content]
            ELSE [result |-> res, current_sentence |-> content]
    IN  IF EndsSentence(grown.current_sentence)
        THEN [result |-> Append(grown.result, grown.current_sentence),
              current_sentence |-> <<>>]
        ELSE grown

\* The cue contents process_segments is called with (SpecMerge).
Contents ==
    { T_IWentHome, T_ButThen, T_Hello, T_AndGoodbye, T_So, T_Next, T_Why,
      T_Wow, T_Butter, T_Then, T_OrElse, T_SoBe, T_ThenGo, T_However,
      T_Therefore, <<>> }

VideoIds == {"V1", "V2"}

\* All sequences over S of length at most n.
RECURSIVE SeqsUpTo(_, _)
SeqsUpTo(S, n) ==
    IF n = 0 THEN {<<>>}
    ELSE LET shorter == SeqsUpTo(S, n - 1)
         IN  shorter \cup {Append(q, x) : q \in {r \in shorter : Len(r) = n - 1}, x \in S}

\* ------------------------------------------------------------------- state
VARIABLES
    fs,                 \* segments_dir: video id -> None (no directory) or Some(its *.txt files as glob lists them)
    artifact,           \* output_dir: video id -> None (no file) or Some(text of <id>.txt)
    caller,             \* the method the embedding program called
    pc,                 \* where control is
    video_ids,          \* process_all_videos: the enumerated ids
    i,                  \* process_all_videos: position of the for loop in video_ids
    success_count,      \* process_all_videos: success_count
    exit_status,        \* the value process_all_videos returned, None before
    video_id,           \* process_video: its argument
    returned,           \* video id -> outcome of the last process_video call for it
    segments,           \* process_segments: its argument (all_segments, sorted)
    idx,                \* process_segments: position of the for loop in segments
    processed_content,  \* self.processed_content
    result,             \* process_segments: result
    current_sentence,   \* process_segments: current_sentence
    processed_text      \* process_video: processed_text, None before

vars ==
    <<fs, artifact, caller, pc, video_ids, i, success_count, exit_status, video_id,
      returned, segments, idx, processed_content, result, current_sentence,
      processed_text>>

driverVars == <<video_ids, i, success_count, exit_status>>
mergeVars == <<segments, idx, processed_content, result, current_sentence, processed_text>>

\* Number of files on disk.
RECURSIVE FileCount(_, _)
FileCount(dirs, ids) ==
    IF ids = {} THEN 0
    ELSE LET v == CHOOSE x \in ids : TRUE
         IN  (IF dirs[v] = None THEN 0 ELSE Len(dirs[v][1])) + FileCount(dirs, ids \ {v})

\* The directory trees the capture side may have left: per video id no
\* directory, or a directory with its files in the order glob lists them.
FileSystems ==
    {d \in [VideoIds -> {None} \cup {Some(fl) : fl \in SeqsUpTo(SegmentFiles, MaxFiles)}] :
        FileCount(d, VideoIds) <= MaxFiles}

\* State after TranscriptMaker.__init__: the output directory exists; it is
\* empty, or holds the transcripts an earlier run left for the video ids.
Init ==
    /\ fs \in FileSystems
    /\ artifact \in {[v \in VideoIds |-> None], [v \in VideoIds |-> Some(T_Old)]}
    /\ caller = "None"
    /\ pc = "idle"
    /\ video_ids = <<>>
    /\ i = 0
    /\ success_count = 0
    /\ exit_status = None
    /\ video_id = None
    /\ returned = [v \in VideoIds |-> "none"]
    /\ segments = <<>>
    /\ idx = 0
    /\ processed_content = {}
    /\ result = <<>>
    /\ current_sentence = <<>>
    /\ processed_text = None

\* ------------------------------------------------------------ Batch Driver
\* TranscriptMaker.get_video_ids: the sub-directories of segments_dir.
get_video_ids == {v \in VideoIds : fs[v] # None}

\* The orders os.listdir may give a set of names in.
Listings(S) ==
    {q \in SeqsUpTo(S, Cardinality(S)) :
        Len(q) = Cardinality(S) /\ \A x \in S : \E k \in 1..Len(q) : q[k] = x}

\* process_all_videos finds no video id and returns 1.
ProcessAllVideosNoIds ==
    /\ pc = "idle"
    /\ get_video_ids = {}
    /\ caller' = "process_all_videos"
    /\ video_ids' = <<>>
    /\ exit_status' = Some(1)
    /\ pc' = "done"
    /\ UNCHANGED <<fs, artifact, i, success_count, video_id, returned, mergeVars>>

\* process_all_videos enumerates the video ids and enters its loop.
ProcessAllVideos ==
    /\ pc = "idle"
    /\ get_video_ids # {}
    /\ caller' = "process_all_videos"
    /\ video_ids' \in Listings(get_video_ids)
    /\ success_count' = 0
    /\ i' = 1
    /\ pc' = "loop"
    /\ UNCHANGED <<fs, artifact, exit_status, video_id, returned, mergeVars>>

\* The embedding program calls process_video itself, with any id.
CallProcessVideo(v) ==
    /\ pc = "idle"
    /\ caller' = "process_video"
    /\ video_id' = Some(v)
    /\ pc' = "process_video"
    /\ UNCHANGED <<fs, artifact, driverVars, returned, mergeVars>>

\* for video_id in video_ids: the next id.
LoopNext ==
    /\ pc = "loop"
    /\ i <= Len(video_ids)
    /\ video_id' = Some(video_ids[i])
    /\ pc' = "process_video"
    /\ UNCHANGED <<fs, artifact, caller, driverVars, returned, mergeVars>>

\* A status that is 0 as soon as one video succeeded.
ExitStatus_AnySuccess(count, n) == IF count > 0 THEN 0 ELSE 1

\* return 0 if success_count == len(video_ids) else 1
ExitStatus(count, n) == IF count = n THEN 0 ELSE 1

\* The loop is over: process_all_videos returns its status.
LoopEnd ==
    /\ pc = "loop"
    /\ i > Len(video_ids)
    /\ exit_status' = Some(ExitStatus(success_count, Len(video_ids)))
    /\ pc' = "done"
    /\ UNCHANGED <<fs, artifact, caller, video_ids, i, success_count, video_id,
                   returned, mergeVars>>

\* process_video returns ok to its caller: the loop counts it and goes on.
Return(ok) ==
    /\ returned' = [returned EXCEPT ![video_id[1]] = IF ok THEN "True" ELSE "False"]
    /\ IF caller = "process_all_videos"
       THEN /\ success_count' = IF ok THEN success_count + 1 ELSE success_count
            /\ i' = i + 1
            /\ pc' = "loop"
       ELSE /\ pc' = "done"
            /\ UNCHANGED <<success_count, i>>
    /\ UNCHANGED <<caller, video_ids, exit_status, video_id>>

\* ----------------------------------------------------------- process_video
\* glob.glob(os.path.join(video_dir, "*.txt")) on an existing directory.
glob(v) == fs[v][1]

\* No directory for the id.
ProcessVideoNoDir ==
    /\ pc = "process_video"
    /\ fs[video_id[1]] = None
    /\ Return(FALSE)
    /\ UNCHANGED <<fs, artifact, mergeVars>>

\* The directory holds no segment file.
ProcessVideoNoFiles ==
    /\ pc = "process_video"
    /\ fs[video_id[1]] # None
    /\ glob(video_id[1]) = <<>>
    /\ Return(FALSE)
    /\ UNCHANGED <<fs, artifact, mergeVars>>

\* The files yield no cue.
ProcessVideoNoSegments ==
    /\ pc = "process_video"
    /\ fs[video_id[1]] # None
    /\ glob(video_id[1]) # <<>>
    /\ ParseAll(glob(video_id[1])) = <<>>
    /\ Return(FALSE)
    /\ UNCHANGED <<fs, artifact, mergeVars>>

\* The cues are parsed, sorted by start time and handed to process_segments.
ProcessVideoSort ==
    /\ pc = "process_video"
    /\ fs[video_id[1]] # None
    /\ glob(video_id[1]) # <<>>
    /\ \E all_segments \in {ParseAll(glob(video_id[1]))} :
         /\ all_segments # <<>>
         /\ segments' = SortByStart(all_segments)
    /\ pc' = "process_segments"
    /\ UNCHANGED <<fs, artifact, caller, driverVars, video_id, returned, idx,
                   processed_content, result, current_sentence, processed_text>>

\* -------------------------------------------------------- process_segments
\* A dedup set carried over from the call before.
FreshContent_Kept(stale) == stale

\* self.processed_content = set(): the dedup set process_segments starts its
\* loop with, whatever the set held.
FreshContent(stale) == {}

\* Entry of process_segments: the dedup set is reset, result and
\* current_sentence start empty.
ProcessSegmentsBegin ==
    /\ pc = "process_segments"
    /\ processed_content' = FreshContent(processed_content)
    /\ result' = <<>>
    /\ current_sentence' = <<>>
    /\ idx' = 1
    /\ pc' = "merge"
    /\ UNCHANGED <<fs, artifact, caller, driverVars, video_id, returned, segments,
                   processed_text>>

\* An iteration that passes over its cue (continue).
SkipCue ==
    /\ pc = "merge"
    /\ idx <= Len(segments)
    /\ Skipped(processed_content, segments[idx])
    /\ idx' = idx + 1
    /\ UNCHANGED <<fs, artifact, caller, pc, driverVars, video_id, returned, segments,
                   processed_content, result, current_sentence, processed_text>>

\* An iteration that takes its cue into the transcript.
MergeCue ==
    /\ pc = "merge"
    /\ idx <= Len(segments)
    /\ ~Skipped(processed_content, segments[idx])
    /\ processed_content' = processed_content \cup {segments[idx].content}
    /\ LET merged == Merge(result, current_sentence, segments[idx].content)
       IN  /\ result' = merged.result
           /\ current_sentence' = merged.current_sentence
    /\ idx' = idx + 1
    /\ UNCHANGED <<fs, artifact, caller, pc, driverVars, video_id, returned, segments,
                   processed_text>>

\* After the loop: a remaining sentence is added, the paragraphs are joined.
ProcessSegmentsReturn ==
    /\ pc = "merge"
    /\ idx > Len(segments)
    /\ result' = IF current_sentence # <<>> THEN Append(result, current_sentence) ELSE result
    /\ processed_text' = Some(join(result', <<"\n", "\n">>))
    /\ pc' = IF caller = "process_segments" THEN "done" ELSE "save"
    /\ UNCHANGED <<fs, artifact, caller, driverVars, video_id, returned, segments, idx,
                   processed_content, current_sentence>>

\* ------------------------------------------------------- Transcript Writer
\* The transcript is written to <video_id>.txt; process_video returns True.
SaveTranscript ==
    /\ pc = "save"
    /\ artifact' = [artifact EXCEPT ![video_id[1]] = Some(processed_text[1])]
    /\ Return(TRUE)
    /\ UNCHANGED <<fs, mergeVars>>

\* An exception leaves process_video and, uncaught, process_all_videos.
Raise ==
    /\ returned' = [returned EXCEPT ![video_id[1]] = "raised"]
    /\ pc' = "raised"
    /\ UNCHANGED <<caller, driverVars, video_id>>

\* open(output_file, "w") fails: nothing is written.
SaveOpenFails ==
    /\ pc = "save"
    /\ Raise
    /\ UNCHANGED <<fs, artifact, mergeVars>>

\* f.write fails after open truncated the file.
SaveWriteFails ==
    /\ pc = "save"
    /\ artifact' = [artifact EXCEPT ![video_id[1]] = Some(<<>>)]
    /\ Raise
    /\ UNCHANGED <<fs, mergeVars>>

\* ---------------------------------------------------------- specifications
Next ==
    \/ ProcessAllVideosNoIds
    \/ ProcessAllVideos
    \/ \E v \in VideoIds : CallProcessVideo(v)
    \/ LoopNext
    \/ LoopEnd
    \/ ProcessVideoNoDir
    \/ ProcessVideoNoFiles
    \/ ProcessVideoNoSegments
    \/ ProcessVideoSort
    \/ ProcessSegmentsBegin
    \/ SkipCue
    \/ MergeCue
    \/ ProcessSegmentsReturn
    \/ SaveTranscript
    \/ SaveOpenFails
    \/ SaveWriteFails

\* The batch driver, or one call of process_video, over a directory tree.
Spec == Init /\ [][Next]_vars

\* The time range of the k-th cue of a sorted list: the cues come in pairs
\* that share a start time.
RangeAt(k) == TimeRange(500 * (k \div 2), 500 * (k \div 2) + 400)

\* Sorted cue lists with any contents.
CueLists ==
    {[k \in 1..Len(q) |-> VTTSegment(RangeAt(k), q[k], None)] :
        q \in SeqsUpTo(Contents, MaxCues)}

\* One call of process_segments on a maker whose dedup set may hold content
\* of an earlier call.
InitMerge ==
    /\ fs = [v \in VideoIds |-> None]
    /\ artifact = [v \in VideoIds |-> None]
    /\ caller = "process_segments"
    /\ pc = "process_segments"
    /\ video_ids = <<>>
    /\ i = 0
    /\ success_count = 0
    /\ exit_status = None
    /\ video_id = None
    /\ returned = [v \in VideoIds |-> "none"]
    /\ segments \in CueLists
    /\ idx = 0
    /\ processed_content \in {{}, {T_Hello}}
    /\ result = <<>>
    /\ current_sentence = <<>>
    /\ processed_text = None

NextMerge ==
    \/ ProcessSegmentsBegin
    \/ SkipCue
    \/ MergeCue
    \/ ProcessSegmentsReturn

SpecMerge == InitMerge /\ [][NextMerge]_vars

\* ================================================================== claims
\* -------------------------------------------------- SpecMerge: C3 C4 C7 C10
\* The contents of the cues the loop has passed.
ContentsBefore(k) == {segments[j].content : j \in 1..(k - 1)}

\* The cue the coming iteration looks at is a first occurrence of non-empty
\* content.
FirstOccurrence ==
    /\ segments[idx].content # <<>>
    /\ segments[idx].content \notin ContentsBefore(idx)

\* The coming step is an iteration of the loop of process_segments.
AtCue == pc = "merge" /\ idx <= Len(segments)

\* The non-empty contents of cues[1..n] without repeats, in order of first
\* occurrence.
RECURSIVE FirstOccurrences(_, _)
FirstOccurrences(cues, n) ==
    IF n = 0 THEN <<>>
    ELSE LET before == FirstOccurrences(cues, n - 1)
             c == cues[n].content
         IN  IF c = <<>> \/ \E j \in 1..(n - 1) : cues[j].content = c
             THEN before
             ELSE Append(before, c)

\* The paragraphs built so far, the open one last.
Paragraphs(res, current) == IF current = <<>> THEN res ELSE Append(res, current)

\* paras is texts cut into consecutive runs (behind the positions in cuts),
\* each run joined by single spaces.
RunsOf(paras, texts, cuts) ==
    /\ Len(paras) = (IF texts = <<>> THEN 0 ELSE Cardinality(cuts) + 1)
    /\ \A r \in 1..Len(paras) :
        LET members == {k \in 1..Len(texts) : Cardinality({c \in cuts : c < k}) + 1 = r}
            lo == CHOOSE k \in members : \A m \in members : k <= m
            hi == CHOOSE k \in members : \A m \in members : k >= m
        IN  paras[r] = join(SubSeq(texts, lo, hi), <<" ">>)

IsRunsOf(paras, texts) ==
    \E cuts \in SUBSET (1..(Len(texts) - 1)) : RunsOf(paras, texts, cuts)

\* The last character of a non-empty text.
Final(text) == text[Len(text)]

\* C3: a cue whose non-empty content occurred in an earlier cue of the list is
\* passed over and changes neither current_sentence nor result (nor the dedup
\* set); a first occurrence of non-empty content goes into the text, once, at
\* its end.
C3_Dedup ==
    [][AtCue =>
        IF segments[idx].content # <<>> /\ segments[idx].content \in ContentsBefore(idx)
        THEN /\ result' = result
             /\ current_sentence' = current_sentence
             /\ processed_content' = processed_content
        ELSE FirstOccurrence =>
             join(Paragraphs(result', current_sentence'), <<" ">>)
               = join(Append(Paragraphs(result, current_sentence), segments[idx].content),
                      <<" ">>)]_vars

\* C3 witness: a repeat of accepted content was passed over while a sentence
\* stood open that came after it.
C3_Witness ==
    /\ pc = "merge"
    /\ idx > 2
    /\ segments[idx - 1].content # <<>>
    /\ segments[idx - 1].content \in ContentsBefore(idx - 1)
    /\ current_sentence # <<>>
    /\ result # <<>>

\* C4 as stated: every cue ending in . ! ? leaves the paragraph that ends with
\* it in result and current_sentence empty; every cue ending in : or ; leaves
\* current_sentence open.
C4_AsStated ==
    [][AtCue /\ segments[idx].content # <<>> =>
        /\ Final(segments[idx].content) \in {".", "!", "?"} =>
             /\ current_sentence' = <<>>
             /\ result' # <<>>
             /\ Len(result'[Len(result')]) >= Len(segments[idx].content)
             /\ SubSeq(result'[Len(result')],
                       Len(result'[Len(result')]) - Len(segments[idx].content) + 1,
                       Len(result'[Len(result')])) = segments[idx].content
        /\ Final(segments[idx].content) \in {":", ";"} => current_sentence' # <<>>]_vars

\* C4 amended: the same of every cue that is not passed over as a repeat.
C4_SentenceClosing ==
    [][AtCue /\ FirstOccurrence =>
        /\ Final(segments[idx].content) \in {".", "!", "?"} =>
             /\ current_sentence' = <<>>
             /\ Len(result') = Len(result) + 1 \/ Len(result') = Len(result) + 2
             /\ Len(result'[Len(result')]) >= Len(segments[idx].content)
             /\ SubSeq(result'[Len(result')],
                       Len(result'[Len(result')]) - Len(segments[idx].content) + 1,
                       Len(result'[Len(result')])) = segments[idx].content
        /\ Final(segments[idx].content) \in {":", ";"} =>
             /\ current_sentence' # <<>>
             /\ Final(current_sentence') = Final(segments[idx].content)
             /\ Len(result') <= Len(result) + 1]_vars

\* C4 witness: a cue ending a sentence has closed a paragraph begun by an
\* earlier cue, one of which ended in a colon.
C4_Witness ==
    /\ pc = "merge"
    /\ idx > 2
    /\ segments[idx - 1].content # <<>>
    /\ segments[idx - 1].content \notin ContentsBefore(idx - 1)
    /\ Final(segments[idx - 1].content) \in {".", "!", "?"}
    /\ current_sentence = <<>>
    /\ result # <<>>
    /\ result[Len(result)] # segments[idx - 1].content
    /\ segments[idx - 2].content # <<>>
    /\ Final(segments[idx - 2].content) = ":"

\* The words of the continuation override, as the claim lists them.
OverrideWords ==
    { <<"A", "n", "d">>, <<"B", "u", "t">>, <<"O", "r">>, <<"S", "o">>,
      <<"T", "h", "e", "n">>, <<"H", "o", "w", "e", "v", "e", "r">>,
      <<"T", "h", "e", "r", "e", "f", "o", "r", "e">> }

\* content begins with an override word followed by a space.
BeginsWithOverride(content) ==
    \E w \in OverrideWords :
        /\ Len(content) > Len(w)
        /\ \A k \in 1..Len(w) : content[k] = w[k]
        /\ content[Len(w) + 1] = " "

\* The last character of current that is no white space.
LastNonSpace(current) ==
    LET at == CHOOSE k \in 1..Len(current) :
                  /\ current[k] \notin Whitespace
                  /\ \A m \in (k + 1)..Len(current) : current[m] \in Whitespace
    IN  current[at]

\* The step took content as the start of a new paragraph: current_sentence was
\* pushed and replaced (and the new one pushed as well if content ends a
\* sentence).
StartedNew(content) ==
    \/ /\ result' = Append(result, current_sentence)
       /\ current_sentence' = content
    \/ /\ result' = Append(Append(result, current_sentence), content)
       /\ current_sentence' = <<>>

\* The step appended content to current_sentence behind one space (and pushed
\* the sentence if it is complete).
Continued(content) ==
    \/ /\ result' = result
       /\ current_sentence' = current_sentence \o <<" ">> \o content
    \/ /\ result' = Append(result, current_sentence \o <<" ">> \o content)
       /\ current_sentence' = <<>>

T_IWentHomeButThen ==
    <<"I", " ", "w", "e", "n", "t", " ", "h", "o", "m", "e", " ", "B", "u", "t", " ", "t", "h", "e", "n", " ", "I", " ", "l", "e", "f", "t", ".">>

\* C7: a cue that is not skipped and arrives while current_sentence is not
\* empty starts a new paragraph exactly when its first character is uppercase,
\* the last non-space character of current_sentence is none of . ! ? : ; and
\* it does not begin with an override word and a space; otherwise it is
\* appended behind a single space. "I went home" then "But then I left."
\* gives the one paragraph "I went home But then I left.".
C7_Boundary ==
    [][AtCue /\ FirstOccurrence /\ current_sentence # <<>> =>
        LET content == segments[idx].content
            new == /\ content[1] \in UpperChars
                   /\ LastNonSpace(current_sentence) \notin {".", "!", "?", ":", ";"}
                   /\ ~BeginsWithOverride(content)
        IN  /\ new => StartedNew(content) /\ ~Continued(content)
            /\ ~new => Continued(content) /\ ~StartedNew(content)
            /\ current_sentence = T_IWentHome /\ content = T_ButThen =>
                 /\ result' = Append(result, T_IWentHomeButThen)
                 /\ current_sentence' = <<>>]_vars

\* C7 witness: "But then I left." arrived behind "I went home" and the two
\* stand in result as one paragraph.
C7_Witness ==
    /\ pc = "merge"
    /\ idx > 2
    /\ segments[idx - 2].content = T_IWentHome
    /\ segments[idx - 1].content = T_ButThen
    /\ result # <<>>
    /\ result[Len(result)] = T_IWentHomeButThen

\* C10: result holds no empty paragraph; the paragraphs, the open one last,
\* are the first occurrences of the non-empty contents passed so far, in
\* order, cut into runs joined by single spaces; between iterations
\* current_sentence is empty or does not end in . ! ?.
C10_TextPreserved ==
    pc \in {"merge", "done"} =>
        LET paras == IF pc = "merge" THEN Paragraphs(result, current_sentence) ELSE result
        IN  /\ \A r \in 1..Len(result) : result[r] # <<>>
            /\ IsRunsOf(paras, FirstOccurrences(segments, idx - 1))
            /\ pc = "merge" =>
                 \/ current_sentence = <<>>
                 \/ Final(current_sentence) \notin {".", "!", "?"}

\* C10 witness: process_segments has returned two paragraphs made of three
\* contents, the last paragraph left without a closing mark.
C10_Witness ==
    /\ pc = "done"
    /\ caller = "process_segments"
    /\ Len(result) = 2
    /\ Len(FirstOccurrences(segments, Len(segments))) = 3
    /\ Final(result[2]) \notin {".", "!", "?"}

\* ------------------------------------------------- Spec: C1 C2 C5 C6 C8 C9
\* The call in progress was made by process_video (not by a direct call of
\* process_segments).
InVideo == caller \in {"process_all_videos", "process_video"}

\* C1 as stated: a video whose job wrote its artifact and succeeded produced
\* at least one non-empty paragraph, so the artifact is not empty.
C1_AsStated ==
    \A v \in VideoIds :
        returned[v] = "True" => artifact[v] # None /\ artifact[v][1] # <<>>

\* C2 as stated: once process_all_videos is over, it has returned a status
\* and every enumerated video id was processed, each counted as a success or
\* a failure.
C2_AsStated ==
    caller = "process_all_videos" /\ pc \in {"done", "raised"} =>
        /\ pc = "done"
        /\ exit_status # None
        /\ \A k \in 1..Len(video_ids) : returned[video_ids[k]] \in {"True", "False"}

\* The time ranges of the files on disk, with their start in milliseconds.
KnownRanges == {<<0, 1000>>, <<1500, 2000>>, <<2500, 3000>>, <<4000, 5000>>}

\* The cues of cues whose start time is t, in order.
WithStart(cues, t) ==
    LET AtT(c) == start_time_ms(c) = t
    IN  SelectSeq(cues, AtT)

\* C5: the cues reach the merge pass in ascending order of start_time_ms, the
\* cues of equal start time in the order they were discovered in; the start
\* time is the one the time range was written with (0 for an unparsable one);
\* the transcript holds the accepted contents in that order.
C5_Ordering ==
    /\ InVideo /\ pc = "save" =>
         IsRunsOf(result, FirstOccurrences(segments, Len(segments)))
    /\ InVideo /\ pc = "process_segments" =>
        \A discovered \in {ParseAll(glob(video_id[1]))} :
            /\ Len(segments) = Len(discovered)
            /\ \A k \in 1..(Len(segments) - 1) :
                 start_time_ms(segments[k]) <= start_time_ms(segments[k + 1])
            /\ \A k \in 1..Len(segments) :
                 WithStart(segments, start_time_ms(segments[k]))
                   = WithStart(discovered, start_time_ms(segments[k]))
            /\ \A k \in 1..Len(segments) :
                 /\ \A r \in KnownRanges :
                      segments[k].time_range = TimeRange(r[1], r[2])
                        => start_time_ms(segments[k]) = r[1]
                 /\ segments[k].time_range = T_BadRange => start_time_ms(segments[k]) = 0

\* C5 witness: cues discovered out of time order, among them two of equal
\* start time and different content from different files, stand sorted before
\* the merge pass.
C5_Witness ==
    /\ InVideo
    /\ pc = "process_segments"
    /\ Len(glob(video_id[1])) > 1
    /\ segments # ParseAll(glob(video_id[1]))
    /\ \E k \in 1..(Len(segments) - 1) :
         /\ start_time_ms(segments[k]) = start_time_ms(segments[k + 1])
         /\ segments[k].content # segments[k + 1].content
         /\ start_time_ms(segments[k]) > 0

\* The state of process_segments after the first n cues of a call of its own:
\* [seen, result, current_sentence].
RECURSIVE Alone(_, _)
Alone(cues, n) ==
    IF n = 0 THEN [seen |-> {}, result |-> <<>>, current_sentence |-> <<>>]
    ELSE LET before == Alone(cues, n - 1)
             c == cues[n].content
         IN  IF c = <<>> \/ c \in before.seen THEN before
             ELSE LET merged == Merge(before.result, before.current_sentence, c)
                  IN  [seen |-> before.seen \cup {c},
                       result |-> merged.result,
                       current_sentence |-> merged.current_sentence]

\* The text process_segments returns for cues in a call of its own.
TextAlone(cues) ==
    LET end == Alone(cues, Len(cues))
    IN  join(Paragraphs(end.result, end.current_sentence), <<"\n", "\n">>)

\* C6: in every video's merge pass the dedup set holds contents of that
\* video's cues only (it is empty when the pass starts), and the transcript
\* made and written for a video is the one a maker that processed only this
\* video would have made.
C6_DedupPerVideo ==
    /\ pc = "merge" =>
         processed_content = {segments[k].content : k \in 1..(idx - 1)} \ {<<>>}
    /\ InVideo /\ pc = "save" => processed_text = Some(TextAlone(segments))
    /\ InVideo /\ pc \in {"loop", "done"} /\ video_id # None
         /\ returned[video_id[1]] = "True" => artifact[video_id[1]] = processed_text

\* C6 witness: the batch wrote the same non-empty transcript for two videos.
C6_Witness ==
    /\ caller = "process_all_videos"
    /\ pc = "done"
    /\ \A v \in VideoIds : returned[v] = "True"
    /\ \A v, w \in VideoIds : artifact[v] = artifact[w]
    /\ \A v \in VideoIds : artifact[v] # Some(<<>>)

\* The files that hold no cue: no time range in them, or not readable.
CuelessFiles == {"e.txt", "u.txt"}

\* No directory, no file in it, or no cue in its files.
NoInput(v) ==
    \/ fs[v] = None
    \/ \A k \in 1..Len(glob(v)) : glob(v)[k] \in CuelessFiles

\* C8: for a video id without directory, without files or without a cue,
\* process_video returns False, and no step creates or changes its artifact.
C8_MissingInput ==
    [][\A v \in VideoIds :
        NoInput(v) =>
            /\ artifact'[v] = artifact[v]
            /\ returned'[v] # returned[v] => returned'[v] = "False"]_vars

\* C8 witness: a video whose files hold no cue was reported as failed, the
\* transcript of an earlier run still in place.
C8_Witness ==
    \E v \in VideoIds :
        /\ fs[v] # None
        /\ glob(v) # <<>>
        /\ NoInput(v)
        /\ returned[v] = "False"
        /\ artifact[v] = Some(T_Old)

\* C9: process_all_videos returns 0 only if it found a video id and
\* process_video returned True for every id it found; when it returns after
\* a job failed, or without any id, it returns 1; no status is returned
\* after an exception.
C9_ExitStatus ==
    /\ exit_status = Some(0) =>
         /\ video_ids # <<>>
         /\ \A k \in 1..Len(video_ids) : returned[video_ids[k]] = "True"
    /\ caller = "process_all_videos" /\ pc = "done" =>
         /\ exit_status \in {Some(0), Some(1)}
         /\ \/ video_ids = <<>>
            \/ \E k \in 1..Len(video_ids) : returned[video_ids[k]] = "False"
            => exit_status = Some(1)
    /\ pc # "done" => exit_status = None

\* C9 witness: the batch returned 1 after one video succeeded and one failed.
C9_Witness ==
    /\ caller = "process_all_videos"
    /\ pc = "done"
    /\ exit_status = Some(1)
    /\ \E v, w \in VideoIds : returned[v] = "True" /\ returned[w] = "False"

=============================================================================
